---------------------------- MODULE Spec2Model ----------------------------
(***************************************************************************)
(* A model of src/server/database/Database/Transaction.cpp:                *)
(*   - TransactionBase: the statement batch (Append,                       *)
(*     AppendPreparedStatement, Cleanup);                                  *)
(*   - TransactionTask::Execute / TryExecute: the deadlock-retry loop      *)
(*     under the process-wide mutex _deadlockLock;                         *)
(*   - TransactionCallback::InvokeIfReady: the one-shot completion poll.   *)
(*                                                                         *)
(* Three specifications share the variables:                               *)
(*   Spec          worker threads, each running Execute once on its own    *)
(*                 batch and connection, and the millisecond clock;        *)
(*   SpecBatch     a caller building and cleaning up one batch;            *)
(*   SpecCallback  a poller calling InvokeIfReady while the deferred       *)
(*                 result becomes available.                               *)
(***************************************************************************)
EXTENDS Integers, Sequences, FiniteSets

(***************************************************************************)
(* Bounds of the model.                                                    *)
(***************************************************************************)
\* Worker threads (each has its own batch, connection and completion handle).
NumThreads == 2
\* Calls into the connection one Execute may make (first attempt included).
MaxAttempts == 2
\* Advances of the clock in one behaviour.
MaxTicks == 1
\* Append calls on one batch in one behaviour.
MaxLen == 3
\* Cleanup calls a caller makes on one batch in one behaviour.
MaxCleanups == 3
\* InvokeIfReady polls on one handle in one behaviour.
MaxPolls == 3

(***************************************************************************)
(* Program constants.                                                      *)
(***************************************************************************)
\* #define DEADLOCK_MAX_RETRY_TIME_MS 60000
DEADLOCK_MAX_RETRY_TIME_MS == 60000
\* mysqld_error.h: the server's "deadlock found when trying to get lock".
ER_LOCK_DEADLOCK == 1213

Threads == 1..NumThreads

\* What conn->ExecuteTransaction can return: 0 (success), ER_LOCK_DEADLOCK,
\* or any other error; 1062 (ER_DUP_ENTRY) stands for every other code.
ResultCodes == {0, ER_LOCK_DEADLOCK, 1062}

\* No thread holds _deadlockLock.
Unlocked == 0

\* A null pointer argument (char const* or PreparedStatementBase*).
NullPtr == "nullptr"

\* The char const* arguments a caller may pass to Append: a null pointer, the
\* empty C string and two non-empty texts.
SqlArgs == {NullPtr, "", "DELETE", "INSERT"}

\* The PreparedStatementBase* arguments a caller may pass.
StmtArgs == {NullPtr, "stmt1", "stmt2"}

VARIABLES
    \* ---- TransactionBase, one batch per thread
    m_queries,      \* std::vector<TransactionData>
    cleanedUp,      \* bool _cleanedUp
    aborted,        \* an ASSERT failed: the process is in the fatal abort state
    appendLog,      \* observer: the arguments of the Append* calls that returned
    lastCall,       \* observer: the latest Append* call made, returned or not
    cleanupCalls,   \* observer: number of Cleanup calls made on the batch
    \* ---- TransactionTask::Execute, one call per thread
    pc,             \* the line the thread is about to run
    errorCode,      \* int errorCode (local)
    loopDuration,   \* uint32 loopDuration (local)
    startMSTime,    \* uint32 startMSTime (local)
    deadlockLock,   \* static std::mutex _deadlockLock: its owner, or Unlocked
    now,            \* what getMSTime() reads
    ticks,          \* observer: clock advances so far
    result,         \* what Execute returned: "none" until it returns
    codes,          \* observer: the codes the connection returned, in call order
    ran,            \* observer: the connection's record of each attempt
    submitted,      \* observer: m_queries when Execute was called
    warnings,       \* observer: TC_LOG_WARN lines of line 83
    fatals,         \* observer: TC_LOG_ERROR lines of line 86
    acquisitions,   \* observer: times the thread acquired _deadlockLock
    \* ---- TransactionCallback, one handle per thread
    m_future,       \* std::future state: "invalid", "pending", "ready"
    futureValue,    \* the value the shared state holds once ready
    callbackArgs,   \* observer: the arguments m_callback was invoked with
    pollLog,        \* observer: what each InvokeIfReady call returned
    availableAt     \* observer: polls made before the result became available

batchVars == <<m_queries, cleanedUp, aborted, appendLog, lastCall, cleanupCalls>>
execVars == <<pc, errorCode, loopDuration, startMSTime, deadlockLock, now,
              ticks, result, codes, ran, submitted, warnings, fatals,
              acquisitions>>
callbackVars == <<m_future, futureValue, callbackArgs, pollLog, availableAt>>
vars == <<batchVars, execVars, callbackVars>>

(***************************************************************************)
(* TransactionData: the variant<unique_ptr<PreparedStatementBase>, string> *)
(* each emplace_back constructs.                                           *)
(***************************************************************************)
\* std::in_place_type<std::string>, sql: a std::string copied from the C string.
StringEntry(sql) == [tag |-> "string", value |-> sql]

\* std::in_place_type<std::unique_ptr<PreparedStatementBase>>, stmt.
StmtEntry(stmt) == [tag |-> "stmt", value |-> stmt]

(***************************************************************************)
(* TransactionBase                                                         *)
(***************************************************************************)
\* ASSERT(p) on a pointer: passes when the pointer is not null.  An empty C
\* string is a non-null pointer.
AssertPasses(p) == p # NullPtr

\* A faulty variant of emplace_back: the entry is put at the front.
MutEmplaceFront(q, e) == <<e>> \o q

\* m_queries.emplace_back(...): one entry constructed at the end.
EmplaceBack(q, e) == Append(q, e)

\* void TransactionBase::Append(char const* sql)
TransAppend(t, sql) ==
    /\ ~aborted
    /\ Len(appendLog[t]) < MaxLen
    /\ lastCall' = [lastCall EXCEPT ![t] = [op |-> "Append", arg |-> sql]]
    /\ IF AssertPasses(sql)
       THEN /\ m_queries' = [m_queries EXCEPT ![t] = EmplaceBack(@, StringEntry(sql))]
            /\ appendLog' = [appendLog EXCEPT ![t] = Append(@, [op |-> "Append", arg |-> sql])]
            /\ UNCHANGED aborted
       ELSE /\ aborted' = TRUE
            /\ UNCHANGED <<m_queries, appendLog>>
    /\ UNCHANGED <<cleanedUp, cleanupCalls>>
    /\ UNCHANGED <<execVars, callbackVars>>

\* void TransactionBase::AppendPreparedStatement(PreparedStatementBase* stmt)
AppendPreparedStatement(t, stmt) ==
    /\ ~aborted
    /\ Len(appendLog[t]) < MaxLen
    /\ lastCall' = [lastCall EXCEPT ![t] = [op |-> "AppendPreparedStatement", arg |-> stmt]]
    /\ IF AssertPasses(stmt)
       THEN /\ m_queries' = [m_queries EXCEPT ![t] = EmplaceBack(@, StmtEntry(stmt))]
            /\ appendLog' = [appendLog EXCEPT ![t] =
                                Append(@, [op |-> "AppendPreparedStatement", arg |-> stmt])]
            /\ UNCHANGED aborted
       ELSE /\ aborted' = TRUE
            /\ UNCHANGED <<m_queries, appendLog>>
    /\ UNCHANGED <<cleanedUp, cleanupCalls>>
    /\ UNCHANGED <<execVars, callbackVars>>

\* A faulty variant of Cleanup: the flag is set and the vector is not cleared.
MutCleanupKeepsEntries(b) == [b EXCEPT !.cleanedUp = TRUE]

\* void TransactionBase::Cleanup(), as a function of the batch
\* [m_queries, cleanedUp]: returns early when _cleanedUp is set, else clears
\* the vector and sets the flag.
Cleanup(b) ==
    IF b.cleanedUp
    THEN b
    ELSE [m_queries |-> <<>>, cleanedUp |-> TRUE]

\* The batch of thread t as Cleanup takes it.
Batch(t) == [m_queries |-> m_queries[t], cleanedUp |-> cleanedUp[t]]

\* trans->Cleanup() on the batch of thread t.
DoCleanup(t) ==
    /\ m_queries' = [m_queries EXCEPT ![t] = Cleanup(Batch(t)).m_queries]
    /\ cleanedUp' = [cleanedUp EXCEPT ![t] = Cleanup(Batch(t)).cleanedUp]
    /\ cleanupCalls' = [cleanupCalls EXCEPT ![t] = @ + 1]

\* An explicit call of Cleanup by the batch's owner.
CallCleanup(t) ==
    /\ ~aborted
    /\ cleanupCalls[t] < MaxCleanups
    /\ DoCleanup(t)
    /\ UNCHANGED <<aborted, appendLog, lastCall>>
    /\ UNCHANGED <<execVars, callbackVars>>

(***************************************************************************)
(* External collaborators of Execute: the connection and the clock.        *)
(***************************************************************************)
RECURSIVE ExecuteTransaction(_)
\* conn->ExecuteTransaction(trans): the connection runs the entries of the
\* batch front to back; the result is its record of the statements it ran.
ExecuteTransaction(q) ==
    IF q = <<>>
    THEN <<>>
    ELSE <<Head(q)>> \o ExecuteTransaction(Tail(q))

\* GetMSTimeDiffToNow(startMSTime): milliseconds elapsed since the mark.
GetMSTimeDiffToNow(start) == now - start

\* The clock advances by exactly the retry ceiling or by one millisecond more.
TickSteps == {DEADLOCK_MAX_RETRY_TIME_MS, DEADLOCK_MAX_RETRY_TIME_MS + 1}

\* Time passes.
Tick(d) ==
    /\ ticks < MaxTicks
    /\ now' = now + d
    /\ ticks' = ticks + 1
    /\ UNCHANGED <<pc, errorCode, loopDuration, startMSTime, deadlockLock, result,
                   codes, ran, submitted, warnings, fatals, acquisitions>>
    /\ UNCHANGED <<batchVars, callbackVars>>

\* A thread inside the loop has taken startMSTime and the clock has not yet
\* passed its ceiling.  Only such a thread's next reading of the clock can
\* depend on how far the clock advances.
ClockObserved ==
    \E t \in Threads :
        /\ pc[t] \in {"L78test", "L80", "L78inc"}
        /\ now - startMSTime[t] <= DEADLOCK_MAX_RETRY_TIME_MS

\* Time passes, as in Tick, while some thread can observe it; no bound on
\* the number of advances.
TickObserved(d) ==
    /\ ClockObserved
    /\ now' = now + d
    /\ ticks' = ticks + 1
    /\ UNCHANGED <<pc, errorCode, loopDuration, startMSTime, deadlockLock, result,
                   codes, ran, submitted, warnings, fatals, acquisitions>>
    /\ UNCHANGED <<batchVars, callbackVars>>

(***************************************************************************)
(* TransactionTask::Execute, thread t.  pc[t] names the line the thread    *)
(* is about to run.                                                        *)
(***************************************************************************)
\* int TransactionTask::TryExecute(conn, trans): one call into the
\* connection, which returns code c.
TryExecute(t, c) ==
    /\ Len(codes[t]) < MaxAttempts
    /\ codes' = [codes EXCEPT ![t] = Append(@, c)]
    /\ ran' = [ran EXCEPT ![t] = Append(@, ExecuteTransaction(m_queries[t]))]

\* A faulty variant of line 65: every error code is retried (errorCode != 0
\* in place of errorCode == ER_LOCK_DEADLOCK).
MutRetryAnyError(c) == IF c = 0 THEN "done" ELSE "L76"

\* Lines 62-65 and 89: where the first attempt's code leads: out of Execute
\* with true (line 63), to the lock (line 76) or to the cleanup (line 90).
AfterFirstAttempt(c) ==
    IF c = 0
    THEN "done"
    ELSE IF c = ER_LOCK_DEADLOCK THEN "L76" ELSE "L90"

\* A faulty variant of line 61: the lock_guard is declared at the top of
\* Execute, so the first attempt waits for _deadlockLock.
MutFirstAttemptWaitsForLock(t) ==
    /\ pc[t] = "L61"
    /\ deadlockLock = Unlocked
    /\ \E c \in ResultCodes :
          /\ TryExecute(t, c)
          /\ pc' = [pc EXCEPT ![t] = IF c = 0 THEN "done"
                                     ELSE IF c = ER_LOCK_DEADLOCK THEN "L76"
                                     ELSE "L90"]
          /\ IF c = 0
             THEN /\ result' = [result EXCEPT ![t] = "true"]
                  /\ UNCHANGED errorCode
             ELSE /\ errorCode' = [errorCode EXCEPT ![t] = c]
                  /\ UNCHANGED result
    /\ submitted' = [submitted EXCEPT ![t] = m_queries[t]]
    /\ UNCHANGED <<loopDuration, startMSTime, deadlockLock, now, ticks,
                   warnings, fatals, acquisitions>>
    /\ UNCHANGED <<batchVars, callbackVars>>

\* Line 61: Execute is entered with the batch as it is now, and
\* int errorCode = TryExecute(conn, trans); then the branches on errorCode,
\* of which the first returns true at once.
FirstAttempt(t) ==
    /\ pc[t] = "L61"
    /\ \E c \in ResultCodes :
          /\ TryExecute(t, c)
          /\ pc' = [pc EXCEPT ![t] = AfterFirstAttempt(c)]
          /\ IF AfterFirstAttempt(c) = "done"
             THEN /\ result' = [result EXCEPT ![t] = "true"]
                  /\ UNCHANGED errorCode
             ELSE /\ errorCode' = [errorCode EXCEPT ![t] = c]
                  /\ UNCHANGED result
    /\ submitted' = [submitted EXCEPT ![t] = m_queries[t]]
    /\ UNCHANGED <<loopDuration, startMSTime, deadlockLock, now, ticks,
                   warnings, fatals, acquisitions>>
    /\ UNCHANGED <<batchVars, callbackVars>>

\* A faulty variant of line 76: a lock that is per call, not process-wide,
\* and so never makes a thread wait for another.
MutLockNotShared(t) == TRUE

\* std::mutex::lock can return only when no thread owns the mutex.
CanLock(t) == deadlockLock = Unlocked

\* Line 76: std::lock_guard<std::mutex> lock(_deadlockLock);
AcquireLock(t) ==
    /\ pc[t] = "L76"
    /\ CanLock(t)
    /\ deadlockLock' = t
    /\ acquisitions' = [acquisitions EXCEPT ![t] = @ + 1]
    /\ pc' = [pc EXCEPT ![t] = "L78init"]
    /\ UNCHANGED <<errorCode, loopDuration, startMSTime, now, ticks, result, codes,
                   ran, submitted, warnings, fatals>>
    /\ UNCHANGED <<batchVars, callbackVars>>

\* A faulty variant of line 78: loopDuration starts as the clock's reading
\* instead of 0.
MutLoopInitReadsClock(t) ==
    /\ pc[t] = "L78init"
    /\ loopDuration' = [loopDuration EXCEPT ![t] = now]
    /\ startMSTime' = [startMSTime EXCEPT ![t] = now]
    /\ pc' = [pc EXCEPT ![t] = "L78test"]
    /\ UNCHANGED <<errorCode, deadlockLock, now, ticks, result, codes, ran,
                   submitted, warnings, fatals, acquisitions>>
    /\ UNCHANGED <<batchVars, callbackVars>>

\* Line 78, init-statement: uint32 loopDuration = 0, startMSTime = getMSTime()
LoopInit(t) ==
    /\ pc[t] = "L78init"
    /\ loopDuration' = [loopDuration EXCEPT ![t] = 0]
    /\ startMSTime' = [startMSTime EXCEPT ![t] = now]
    /\ pc' = [pc EXCEPT ![t] = "L78test"]
    /\ UNCHANGED <<errorCode, deadlockLock, now, ticks, result, codes, ran,
                   submitted, warnings, fatals, acquisitions>>
    /\ UNCHANGED <<batchVars, callbackVars>>

\* A faulty variant of line 78: < in place of <=.
MutLoopStrictlyBelow(d) == d < DEADLOCK_MAX_RETRY_TIME_MS

\* A faulty variant of line 78: the loop has no ceiling.
MutLoopNoCeiling(d) == TRUE

\* Line 78, condition: loopDuration <= DEADLOCK_MAX_RETRY_TIME_MS
LoopCondition(d) == d <= DEADLOCK_MAX_RETRY_TIME_MS

\* Line 78: the loop test, leading to the body (line 80) or past the loop
\* (line 86).
LoopTest(t) ==
    /\ pc[t] = "L78test"
    /\ pc' = [pc EXCEPT ![t] = IF LoopCondition(loopDuration[t]) THEN "L80" ELSE "L86"]
    /\ UNCHANGED <<errorCode, loopDuration, startMSTime, deadlockLock, now, ticks,
                   result, codes, ran, submitted, warnings, fatals, acquisitions>>
    /\ UNCHANGED <<batchVars, callbackVars>>

\* A faulty variant of line 80: the test is inverted (the ! is dropped).
MutRetryTestInverted(c) == c # 0

\* Line 80: if (!TryExecute(conn, trans)): whether the re-attempt with code c
\* ends the loop.
RetrySucceeded(c) == c = 0

\* A faulty variant of lines 76-84: the lock_guard is inside the retry path,
\* so a re-attempt that returns ER_LOCK_DEADLOCK locks the mutex again.
MutRetryLocksAgain(t) ==
    /\ pc[t] = "L80"
    /\ \E c \in ResultCodes :
          /\ TryExecute(t, c)
          /\ IF RetrySucceeded(c)
             THEN /\ pc' = [pc EXCEPT ![t] = "done"]
                  /\ result' = [result EXCEPT ![t] = "true"]
                  /\ deadlockLock' = Unlocked
                  /\ errorCode' = [errorCode EXCEPT ![t] = 0]
                  /\ loopDuration' = [loopDuration EXCEPT ![t] = 0]
                  /\ startMSTime' = [startMSTime EXCEPT ![t] = 0]
                  /\ UNCHANGED warnings
             ELSE /\ warnings' = [warnings EXCEPT ![t] = @ + 1]
                  /\ pc' = [pc EXCEPT ![t] = IF c = ER_LOCK_DEADLOCK
                                             THEN "L76" ELSE "L78inc"]
                  /\ UNCHANGED <<result, deadlockLock, errorCode, loopDuration,
                                 startMSTime>>
    /\ UNCHANGED <<now, ticks, submitted, fatals, acquisitions>>
    /\ UNCHANGED <<batchVars, callbackVars>>

\* A faulty variant of lines 80-83: a failed re-attempt cleans the batch up
\* before the next one.
MutRetryCleansUp(t) ==
    /\ pc[t] = "L80"
    /\ \E c \in ResultCodes :
          /\ TryExecute(t, c)
          /\ IF RetrySucceeded(c)
             THEN /\ pc' = [pc EXCEPT ![t] = "done"]
                  /\ result' = [result EXCEPT ![t] = "true"]
                  /\ deadlockLock' = Unlocked
                  /\ errorCode' = [errorCode EXCEPT ![t] = 0]
                  /\ loopDuration' = [loopDuration EXCEPT ![t] = 0]
                  /\ startMSTime' = [startMSTime EXCEPT ![t] = 0]
                  /\ UNCHANGED <<warnings, m_queries, cleanedUp, cleanupCalls>>
             ELSE /\ warnings' = [warnings EXCEPT ![t] = @ + 1]
                  /\ pc' = [pc EXCEPT ![t] = "L78inc"]
                  /\ DoCleanup(t)
                  /\ UNCHANGED <<result, deadlockLock, errorCode, loopDuration,
                                 startMSTime>>
    /\ UNCHANGED <<now, ticks, submitted, fatals, acquisitions>>
    /\ UNCHANGED <<aborted, appendLog, lastCall, callbackVars>>

\* A faulty variant of lines 80-81: the mutex is locked by hand and the
\* early return of line 81 leaves it locked.
MutRetryReturnKeepsLock(t) ==
    /\ pc[t] = "L80"
    /\ \E c \in ResultCodes :
          /\ TryExecute(t, c)
          /\ IF RetrySucceeded(c)
             THEN /\ pc' = [pc EXCEPT ![t] = "done"]
                  /\ result' = [result EXCEPT ![t] = "true"]
                  /\ errorCode' = [errorCode EXCEPT ![t] = 0]
                  /\ loopDuration' = [loopDuration EXCEPT ![t] = 0]
                  /\ startMSTime' = [startMSTime EXCEPT ![t] = 0]
                  /\ UNCHANGED <<warnings, deadlockLock>>
             ELSE /\ warnings' = [warnings EXCEPT ![t] = @ + 1]
                  /\ pc' = [pc EXCEPT ![t] = "L78inc"]
                  /\ UNCHANGED <<result, deadlockLock, errorCode, loopDuration,
                                 startMSTime>>
    /\ UNCHANGED <<now, ticks, submitted, fatals, acquisitions>>
    /\ UNCHANGED <<batchVars, callbackVars>>

\* A faulty variant of lines 80-83: a re-attempt that fails with a code
\* other than ER_LOCK_DEADLOCK breaks out of the loop without a warning.
MutRetryBreaksOnOtherError(t) ==
    /\ pc[t] = "L80"
    /\ \E c \in ResultCodes :
          /\ TryExecute(t, c)
          /\ IF RetrySucceeded(c)
             THEN /\ pc' = [pc EXCEPT ![t] = "done"]
                  /\ result' = [result EXCEPT ![t] = "true"]
                  /\ deadlockLock' = Unlocked
                  /\ errorCode' = [errorCode EXCEPT ![t] = 0]
                  /\ loopDuration' = [loopDuration EXCEPT ![t] = 0]
                  /\ startMSTime' = [startMSTime EXCEPT ![t] = 0]
                  /\ UNCHANGED warnings
             ELSE IF c = ER_LOCK_DEADLOCK
             THEN /\ warnings' = [warnings EXCEPT ![t] = @ + 1]
                  /\ pc' = [pc EXCEPT ![t] = "L78inc"]
                  /\ UNCHANGED <<result, deadlockLock, errorCode, loopDuration,
                                 startMSTime>>
             ELSE /\ pc' = [pc EXCEPT ![t] = "L87"]
                  /\ UNCHANGED <<warnings, result, deadlockLock, errorCode,
                                 loopDuration, startMSTime>>
    /\ UNCHANGED <<now, ticks, submitted, fatals, acquisitions>>
    /\ UNCHANGED <<batchVars, callbackVars>>

\* Lines 80-83: a re-attempt.  On code 0, return true, which runs the
\* lock_guard's destructor; on any other code, TC_LOG_WARN("Deadlocked SQL
\* Transaction, retrying. ...") and on to the loop's iteration expression.
Retry(t) ==
    /\ pc[t] = "L80"
    /\ \E c \in ResultCodes :
          /\ TryExecute(t, c)
          /\ IF RetrySucceeded(c)
             THEN /\ pc' = [pc EXCEPT ![t] = "done"]
                  /\ result' = [result EXCEPT ![t] = "true"]
                  /\ deadlockLock' = Unlocked
                  /\ errorCode' = [errorCode EXCEPT ![t] = 0]
                  /\ loopDuration' = [loopDuration EXCEPT ![t] = 0]
                  /\ startMSTime' = [startMSTime EXCEPT ![t] = 0]
                  /\ UNCHANGED warnings
             ELSE /\ warnings' = [warnings EXCEPT ![t] = @ + 1]
                  /\ pc' = [pc EXCEPT ![t] = "L78inc"]
                  /\ UNCHANGED <<result, deadlockLock, errorCode, loopDuration,
                                 startMSTime>>
    /\ UNCHANGED <<now, ticks, submitted, fatals, acquisitions>>
    /\ UNCHANGED <<batchVars, callbackVars>>

\* Lines 80-83 as in Retry, with the observers of the attempts (codes, ran,
\* warnings) switched off, so that a thread may re-attempt without end.
RetryUntraced(t) ==
    /\ pc[t] = "L80"
    /\ \E c \in ResultCodes :
          IF RetrySucceeded(c)
          THEN /\ pc' = [pc EXCEPT ![t] = "done"]
               /\ result' = [result EXCEPT ![t] = "true"]
               /\ deadlockLock' = Unlocked
               /\ errorCode' = [errorCode EXCEPT ![t] = 0]
               /\ loopDuration' = [loopDuration EXCEPT ![t] = 0]
               /\ startMSTime' = [startMSTime EXCEPT ![t] = 0]
          ELSE /\ pc' = [pc EXCEPT ![t] = "L78inc"]
               /\ UNCHANGED <<result, deadlockLock, errorCode, loopDuration,
                              startMSTime>>
    /\ UNCHANGED <<now, ticks, codes, ran, submitted, warnings, fatals, acquisitions>>
    /\ UNCHANGED <<batchVars, callbackVars>>

\* Line 78, iteration expression: loopDuration = GetMSTimeDiffToNow(startMSTime)
LoopStep(t) ==
    /\ pc[t] = "L78inc"
    /\ loopDuration' = [loopDuration EXCEPT ![t] = GetMSTimeDiffToNow(startMSTime[t])]
    /\ pc' = [pc EXCEPT ![t] = "L78test"]
    /\ UNCHANGED <<errorCode, startMSTime, deadlockLock, now, ticks, result, codes,
                   ran, submitted, warnings, fatals, acquisitions>>
    /\ UNCHANGED <<batchVars, callbackVars>>

\* A faulty variant of line 86: the fatal line is logged below the level
\* the sink records, so nothing is observed.
MutLogFatalUnobserved(t) ==
    /\ pc[t] = "L86"
    /\ pc' = [pc EXCEPT ![t] = "L87"]
    /\ UNCHANGED <<errorCode, loopDuration, startMSTime, deadlockLock, now, ticks,
                   result, codes, ran, submitted, warnings, fatals, acquisitions>>
    /\ UNCHANGED <<batchVars, callbackVars>>

\* Line 86: TC_LOG_ERROR("Fatal deadlocked SQL Transaction, ...")
LogFatal(t) ==
    /\ pc[t] = "L86"
    /\ fatals' = [fatals EXCEPT ![t] = @ + 1]
    /\ pc' = [pc EXCEPT ![t] = "L87"]
    /\ UNCHANGED <<errorCode, loopDuration, startMSTime, deadlockLock, now, ticks,
                   result, codes, ran, submitted, warnings, acquisitions>>
    /\ UNCHANGED <<batchVars, callbackVars>>

\* A faulty variant of line 87: the lock_guard is declared at function
\* scope, so leaving the if-block does not release the mutex.
MutLockHeldPastBlock(t) ==
    /\ pc[t] = "L87"
    /\ loopDuration' = [loopDuration EXCEPT ![t] = 0]
    /\ startMSTime' = [startMSTime EXCEPT ![t] = 0]
    /\ pc' = [pc EXCEPT ![t] = "L90"]
    /\ UNCHANGED <<errorCode, deadlockLock, now, ticks, result, codes, ran, submitted,
                   warnings, fatals, acquisitions>>
    /\ UNCHANGED <<batchVars, callbackVars>>

\* Line 87: the if-block's closing brace runs the lock_guard's destructor.
ReleaseLock(t) ==
    /\ pc[t] = "L87"
    /\ deadlockLock' = Unlocked
    /\ loopDuration' = [loopDuration EXCEPT ![t] = 0]
    /\ startMSTime' = [startMSTime EXCEPT ![t] = 0]
    /\ pc' = [pc EXCEPT ![t] = "L90"]
    /\ UNCHANGED <<errorCode, now, ticks, result, codes, ran, submitted, warnings,
                   fatals, acquisitions>>
    /\ UNCHANGED <<batchVars, callbackVars>>

\* Line 90: trans->Cleanup();
ExecCleanup(t) ==
    /\ pc[t] = "L90"
    /\ DoCleanup(t)
    /\ pc' = [pc EXCEPT ![t] = "L92"]
    /\ UNCHANGED <<aborted, appendLog, lastCall>>
    /\ UNCHANGED <<errorCode, loopDuration, startMSTime, deadlockLock, now, ticks,
                   result, codes, ran, submitted, warnings, fatals, acquisitions>>
    /\ UNCHANGED callbackVars

\* Line 92: return false;
ReturnFalse(t) ==
    /\ pc[t] = "L92"
    /\ pc' = [pc EXCEPT ![t] = "done"]
    /\ result' = [result EXCEPT ![t] = "false"]
    /\ errorCode' = [errorCode EXCEPT ![t] = 0]
    /\ UNCHANGED <<loopDuration, startMSTime, deadlockLock, now, ticks, codes, ran,
                   submitted, warnings, fatals, acquisitions>>
    /\ UNCHANGED <<batchVars, callbackVars>>

(***************************************************************************)
(* TransactionCallback, handle h.  m_future is "invalid" when valid() is   *)
(* false (default-constructed, or already collected by get()), "pending"   *)
(* while its shared state holds no value, "ready" once it holds one.       *)
(***************************************************************************)
\* m_future.valid()
FutureValid(f) == f # "invalid"

\* m_future.wait_for(std::chrono::seconds(0)) == std::future_status::ready
FutureIsReady(f) == f = "ready"

\* A faulty variant of line 102: the wait_for test is left out.
MutReadyWhenValid(f) == FutureValid(f)

\* Line 102: the condition of the if.
ReadyToInvoke(f) == FutureValid(f) /\ FutureIsReady(f)

\* std::future::get(): hands the value out and leaves valid() false.
FutureAfterGet(f) == "invalid"

\* A faulty variant of InvokeIfReady: the future is moved out of the handle
\* before it is tested, so a poll that returns false leaves m_future invalid.
MutInvokeMovesFuture(h) ==
    /\ Len(pollLog[h]) < MaxPolls
    /\ m_future' = [m_future EXCEPT ![h] = "invalid"]
    /\ IF ReadyToInvoke(m_future[h])
       THEN /\ callbackArgs' = [callbackArgs EXCEPT ![h] = Append(@, futureValue[h])]
            /\ pollLog' = [pollLog EXCEPT ![h] = Append(@, TRUE)]
       ELSE /\ pollLog' = [pollLog EXCEPT ![h] = Append(@, FALSE)]
            /\ UNCHANGED callbackArgs
    /\ UNCHANGED <<futureValue, availableAt>>
    /\ UNCHANGED <<batchVars, execVars>>

\* bool TransactionCallback::InvokeIfReady()
InvokeIfReady(h) ==
    /\ Len(pollLog[h]) < MaxPolls
    /\ IF ReadyToInvoke(m_future[h])
       THEN /\ callbackArgs' = [callbackArgs EXCEPT ![h] = Append(@, futureValue[h])]
            /\ m_future' = [m_future EXCEPT ![h] = FutureAfterGet(@)]
            /\ pollLog' = [pollLog EXCEPT ![h] = Append(@, TRUE)]
       ELSE /\ pollLog' = [pollLog EXCEPT ![h] = Append(@, FALSE)]
            /\ UNCHANGED <<callbackArgs, m_future>>
    /\ UNCHANGED <<futureValue, availableAt>>
    /\ UNCHANGED <<batchVars, execVars>>

\* The task that ran the transaction stores its bool result in the shared
\* state of a pending future (the promise side of m_future).
SetValue(h, v) ==
    /\ m_future[h] = "pending"
    /\ m_future' = [m_future EXCEPT ![h] = "ready"]
    /\ futureValue' = [futureValue EXCEPT ![h] = v]
    /\ availableAt' = [availableAt EXCEPT ![h] = Len(pollLog[h])]
    /\ UNCHANGED <<callbackArgs, pollLog>>
    /\ UNCHANGED <<batchVars, execVars>>

(***************************************************************************)
(* Initial states.                                                         *)
(***************************************************************************)
RECURSIVE Replay(_)
\* The batch a caller gets from a new TransactionBase by making the calls of
\* log in order.
Replay(log) ==
    IF log = <<>>
    THEN <<>>
    ELSE LET call == log[Len(log)]
             e == IF call.op = "Append" THEN StringEntry(call.arg) ELSE StmtEntry(call.arg)
         IN  EmplaceBack(Replay(SubSeq(log, 1, Len(log) - 1)), e)

\* The calls with which the caller of thread t built the batch it hands to
\* Execute: t appends, raw statements and prepared ones in turn.
SubmittedLog(t) ==
    [i \in 1..t |->
        IF i % 2 = 1
        THEN [op |-> "Append", arg |-> "DELETE"]
        ELSE [op |-> "AppendPreparedStatement", arg |-> "stmt1"]]

\* A new TransactionBase per thread: no entries, _cleanedUp(false).
InitNewBatches ==
    /\ m_queries = [t \in Threads |-> <<>>]
    /\ cleanedUp = [t \in Threads |-> FALSE]
    /\ aborted = FALSE
    /\ appendLog = [t \in Threads |-> <<>>]
    /\ lastCall = [t \in Threads |-> [op |-> "none", arg |-> "none"]]
    /\ cleanupCalls = [t \in Threads |-> 0]

\* Batches built by their callers and not cleaned up, ready to be submitted.
InitBuiltBatches ==
    /\ appendLog = [t \in Threads |-> SubmittedLog(t)]
    /\ lastCall = [t \in Threads |-> SubmittedLog(t)[t]]
    /\ m_queries = [t \in Threads |-> Replay(appendLog[t])]
    /\ cleanedUp = [t \in Threads |-> FALSE]
    /\ aborted = FALSE
    /\ cleanupCalls = [t \in Threads |-> 0]

\* Every thread is about to enter Execute; _deadlockLock is unlocked.
InitExec ==
    /\ pc = [t \in Threads |-> "L61"]
    /\ errorCode = [t \in Threads |-> 0]
    /\ loopDuration = [t \in Threads |-> 0]
    /\ startMSTime = [t \in Threads |-> 0]
    /\ deadlockLock = Unlocked
    /\ now = 0
    /\ ticks = 0
    /\ result = [t \in Threads |-> "none"]
    /\ codes = [t \in Threads |-> <<>>]
    /\ ran = [t \in Threads |-> <<>>]
    /\ submitted = [t \in Threads |-> <<>>]
    /\ warnings = [t \in Threads |-> 0]
    /\ fatals = [t \in Threads |-> 0]
    /\ acquisitions = [t \in Threads |-> 0]

\* Handles whose computation is pending.
InitPendingHandles ==
    /\ m_future = [h \in Threads |-> "pending"]
    /\ futureValue = [h \in Threads |-> "none"]
    /\ callbackArgs = [h \in Threads |-> <<>>]
    /\ pollLog = [h \in Threads |-> <<>>]
    /\ availableAt = [h \in Threads |-> -1]

\* Handles as constructed: attached to a pending computation, or holding a
\* future that never was.
InitHandles ==
    /\ m_future \in [Threads -> {"invalid", "pending"}]
    /\ futureValue = [h \in Threads |-> "none"]
    /\ callbackArgs = [h \in Threads |-> <<>>]
    /\ pollLog = [h \in Threads |-> <<>>]
    /\ availableAt = [h \in Threads |-> -1]

(***************************************************************************)
(* Spec: the worker threads and the clock.                                 *)
(***************************************************************************)
Init == InitBuiltBatches /\ InitExec /\ InitPendingHandles

Next ==
    \/ \E t \in Threads : FirstAttempt(t)
    \/ \E t \in Threads : AcquireLock(t)
    \/ \E t \in Threads : LoopInit(t)
    \/ \E t \in Threads : LoopTest(t)
    \/ \E t \in Threads : Retry(t)
    \/ \E t \in Threads : LoopStep(t)
    \/ \E t \in Threads : LogFatal(t)
    \/ \E t \in Threads : ReleaseLock(t)
    \/ \E t \in Threads : ExecCleanup(t)
    \/ \E t \in Threads : ReturnFalse(t)
    \/ \E d \in TickSteps : Tick(d)

Spec == Init /\ [][Next]_vars

(***************************************************************************)
(* SpecLive: the threads and the clock with no bound on the re-attempts or *)
(* on the clock, under the fairness the retry loop relies on: every thread *)
(* that can take a step takes one (each call into the connection returns,  *)
(* a free mutex is acquired), and the clock advances.                      *)
(***************************************************************************)
\* A step of thread t.
ThreadStep(t) ==
    \/ FirstAttempt(t)
    \/ AcquireLock(t)
    \/ LoopInit(t)
    \/ LoopTest(t)
    \/ RetryUntraced(t)
    \/ LoopStep(t)
    \/ LogFatal(t)
    \/ ReleaseLock(t)
    \/ ExecCleanup(t)
    \/ ReturnFalse(t)

\* The clock advances.
ClockStep == \E d \in TickSteps : TickObserved(d)

NextLive ==
    \/ \E t \in Threads : ThreadStep(t)
    \/ ClockStep

SpecLive ==
    /\ Init
    /\ [][NextLive]_vars
    /\ \A t \in Threads : WF_vars(ThreadStep(t))
    /\ WF_vars(ClockStep)

(***************************************************************************)
(* SpecBatch: the owner of one batch builds it, cleans it up, and hands it *)
(* to a connection.                                                        *)
(***************************************************************************)
\* The batch the caller works on.
BatchUnderTest == CHOOSE t \in Threads : \A u \in Threads : t <= u

\* The owner has not handed the batch to Execute yet.
Owned(t) == pc[t] = "L61"

InitBatch == InitNewBatches /\ InitExec /\ InitPendingHandles

NextBatch ==
    \/ \E sql \in SqlArgs : Owned(BatchUnderTest) /\ TransAppend(BatchUnderTest, sql)
    \/ \E stmt \in StmtArgs :
          Owned(BatchUnderTest) /\ AppendPreparedStatement(BatchUnderTest, stmt)
    \/ Owned(BatchUnderTest) /\ CallCleanup(BatchUnderTest)
    \/ ~aborted /\ FirstAttempt(BatchUnderTest)

SpecBatch == InitBatch /\ [][NextBatch]_vars

(***************************************************************************)
(* SpecCallback: handles polled while their results become available.      *)
(***************************************************************************)
InitCallback == InitNewBatches /\ InitExec /\ InitHandles

NextCallback ==
    \/ \E h \in Threads : InvokeIfReady(h)
    \/ \E h \in Threads : \E v \in BOOLEAN : SetValue(h, v)

SpecCallback == InitCallback /\ [][NextCallback]_vars

(***************************************************************************)
(* Properties.                                                             *)
(***************************************************************************)
\* Thread t is inside the retry loop: it has acquired _deadlockLock (line 76)
\* and has not yet run the lock_guard's destructor.
InRetryLoop(t) == pc[t] \in {"L78init", "L78test", "L80", "L78inc", "L86", "L87"}

\* The codes of all attempts of thread t are ER_LOCK_DEADLOCK.
AllLockConflicts(t) == \A i \in DOMAIN codes[t] : codes[t][i] = ER_LOCK_DEADLOCK

\* C1: at most one thread is inside the retry loop at any instant, and the
\* thread inside it owns the process-wide lock; so a thread about to
\* re-attempt (line 80) never does so while another thread's retry window is
\* open.
C1_OneRetrierAtATime ==
    /\ \A t \in Threads : InRetryLoop(t) => deadlockLock = t
    /\ \A t, u \in Threads : (t # u /\ InRetryLoop(t)) => ~InRetryLoop(u)

\* C1 witness: one thread has made a failed re-attempt inside the loop while
\* another, whose first attempt hit the lock conflict too, waits at the lock.
C1_Witness ==
    \E t, u \in Threads :
        /\ t # u
        /\ pc[t] = "L78inc" /\ Len(codes[t]) = 2
        /\ pc[u] = "L76" /\ codes[u] = <<ER_LOCK_DEADLOCK>>

\* C2: when Execute has returned true, the executor made no Cleanup call and
\* the batch holds the entries it held at submission; when it has returned
\* false, the batch is marked cleaned up and holds no entry.
C2_ReturnContract ==
    \A t \in Threads :
        /\ result[t] = "true" =>
              /\ cleanupCalls[t] = 0
              /\ ~cleanedUp[t]
              /\ m_queries[t] = submitted[t]
        /\ result[t] = "false" =>
              /\ cleanedUp[t]
              /\ m_queries[t] = <<>>

\* C2 witness: one call returned true after a retry with its batch of entries
\* intact, and another returned false on a batch that held entries.
C2_Witness ==
    \E t, u \in Threads :
        /\ result[t] = "true" /\ Len(codes[t]) = 2 /\ m_queries[t] # <<>>
        /\ result[u] = "false" /\ submitted[u] # <<>>

\* C3: when the first attempt returns an error other than ER_LOCK_DEADLOCK,
\* that call into the connection stays the only one, the lock is never
\* acquired and nothing is logged; the batch is cleaned up (one Cleanup call)
\* and Execute returns false.
C3_OtherErrorIsTerminal ==
    \A t \in Threads :
        (codes[t] # <<>> /\ codes[t][1] \notin {0, ER_LOCK_DEADLOCK}) =>
            /\ Len(codes[t]) = 1
            /\ acquisitions[t] = 0
            /\ ~InRetryLoop(t)
            /\ warnings[t] = 0 /\ fatals[t] = 0
            /\ pc[t] \in {"L90", "L92", "done"}
            /\ pc[t] \in {"L92", "done"} =>
                  cleanupCalls[t] = 1 /\ cleanedUp[t] /\ m_queries[t] = <<>>
            /\ pc[t] = "done" => result[t] = "false"

\* C3 witness: a call whose first attempt returned another error has
\* returned, while another thread is inside the retry loop.
C3_Witness ==
    \E t, u \in Threads :
        /\ codes[t] = <<1062>> /\ pc[t] = "done" /\ submitted[t] # <<>>
        /\ InRetryLoop(u)

\* C4: when the first attempt returns ER_LOCK_DEADLOCK and the first
\* re-attempt returns 0, Execute has returned true after exactly two calls
\* into the connection (one re-attempt, no warning), the lock is released
\* and the batch is neither cleaned up nor changed.
C4_ConflictThenSuccess ==
    \A t \in Threads :
        (Len(codes[t]) >= 2 /\ codes[t][1] = ER_LOCK_DEADLOCK /\ codes[t][2] = 0) =>
            /\ Len(codes[t]) = 2
            /\ Len(ran[t]) = 2
            /\ pc[t] = "done"
            /\ result[t] = "true"
            /\ warnings[t] = 0 /\ fatals[t] = 0
            /\ acquisitions[t] = 1
            /\ deadlockLock # t
            /\ cleanupCalls[t] = 0 /\ ~cleanedUp[t] /\ m_queries[t] = submitted[t]

\* C4 witness: a call returned true on its first re-attempt.
C4_Witness ==
    \E t \in Threads :
        /\ codes[t] = <<ER_LOCK_DEADLOCK, 0>>
        /\ result[t] = "true"
        /\ m_queries[t] # <<>>

\* C5: the fatal line is logged at most once per call, and a call that has
\* returned after every one of its attempts hit the lock conflict (so the
\* loop ended by the ceiling) returned false, with the batch cleaned up and
\* the fatal line logged exactly once.
C5_CeilingExhaustion ==
    \A t \in Threads :
        /\ fatals[t] <= 1
        /\ (pc[t] = "done" /\ codes[t] # <<>> /\ AllLockConflicts(t)) =>
              /\ result[t] = "false"
              /\ cleanedUp[t] /\ m_queries[t] = <<>>
              /\ fatals[t] = 1
              /\ now > DEADLOCK_MAX_RETRY_TIME_MS

\* C5 witness: a call has returned after a first attempt and a re-attempt
\* that both hit the lock conflict.
C5_Witness ==
    \E t \in Threads :
        /\ pc[t] = "done"
        /\ codes[t] = <<ER_LOCK_DEADLOCK, ER_LOCK_DEADLOCK>>
        /\ submitted[t] # <<>>

\* C6: on every handle, the polls made before the result became available
\* returned false, the first poll after it returned true, and every later
\* poll returned false; the callback was invoked once by the poll that
\* returned true, with the stored result, and never otherwise.
C6_CallbackExactlyOnce ==
    \A h \in Threads :
        /\ \A i \in DOMAIN pollLog[h] :
              pollLog[h][i] = (availableAt[h] >= 0 /\ i = availableAt[h] + 1)
        /\ callbackArgs[h] =
              IF availableAt[h] >= 0 /\ Len(pollLog[h]) > availableAt[h]
              THEN <<futureValue[h]>>
              ELSE <<>>
        /\ availableAt[h] >= 0 => futureValue[h] \in BOOLEAN

\* C6 witness: a handle polled once before its result was available, once
\* after it, and once more.
C6_Witness ==
    \E h \in Threads :
        /\ availableAt[h] = 1
        /\ pollLog[h] = <<FALSE, TRUE, FALSE>>
        /\ Len(callbackArgs[h]) = 1

\* C7: a call of InvokeIfReady that returns false changes nothing of the
\* handle: the future keeps its state and its value, and the callback is not
\* invoked.
C7_FalsePollChangesNothing ==
    [][\A h \in Threads :
          pollLog'[h] = Append(pollLog[h], FALSE) =>
              /\ m_future'[h] = m_future[h]
              /\ futureValue'[h] = futureValue[h]
              /\ callbackArgs'[h] = callbackArgs[h]]_vars

\* C7 witness: a poll returned false on a handle whose result is not yet
\* available, and one on a handle never attached to a computation.
C7_Witness ==
    \E h, g \in Threads :
        /\ m_future[h] = "pending"
        /\ pollLog[h] # <<>> /\ pollLog[h][Len(pollLog[h])] = FALSE
        /\ m_future[g] = "invalid" /\ availableAt[g] = -1
        /\ pollLog[g] # <<>> /\ pollLog[g][Len(pollLog[g])] = FALSE

\* C8: every call of Cleanup leaves the batch with no entry and marked
\* cleaned up, and a call of Cleanup on a batch already marked cleaned up
\* changes nothing.
C8_CleanupIdempotent ==
    [][\A t \in Threads :
          cleanupCalls'[t] = cleanupCalls[t] + 1 =>
              /\ m_queries'[t] = <<>> /\ cleanedUp'[t]
              /\ cleanedUp[t] =>
                    m_queries'[t] = m_queries[t] /\ cleanedUp'[t] = cleanedUp[t]]_vars

\* C9: a batch marked cleaned up holds no entry.
C9_CleanedUpIsEmpty ==
    \A t \in Threads : cleanedUp[t] => m_queries[t] = <<>>

\* The entries the calls of log ask for, in call order.
ExpectedEntries(log) ==
    [i \in 1..Len(log) |->
        [tag |-> IF log[i].op = "Append" THEN "string" ELSE "stmt",
         value |-> log[i].arg]]

\* C10: on a batch no Cleanup call was made on, the entry sequence is the
\* arguments of the Append and AppendPreparedStatement calls in call order,
\* and a connection handed the batch ran exactly these statements in that
\* order.
C10_InsertionOrder ==
    \A t \in Threads :
        cleanupCalls[t] = 0 =>
            /\ m_queries[t] = ExpectedEntries(appendLog[t])
            /\ \A i \in DOMAIN ran[t] : ran[t][i] = ExpectedEntries(appendLog[t])

\* C10 witness: a batch built by three calls, raw and prepared mixed, with
\* two different raw texts, was handed to the connection.
C10_Witness ==
    \E t \in Threads :
        /\ cleanupCalls[t] = 0
        /\ Len(appendLog[t]) = 3
        /\ appendLog[t][1].op = "Append" /\ appendLog[t][1].arg = "DELETE"
        /\ appendLog[t][2].op = "AppendPreparedStatement"
        /\ appendLog[t][3].op = "Append" /\ appendLog[t][3].arg = "INSERT"
        /\ Len(ran[t]) = 1 /\ Len(ran[t][1]) = 3

\* The arguments the contract of the append operations rules out: a null
\* pointer, and for Append an empty text.
BadArgument(call) ==
    \/ call.arg = NullPtr
    \/ call.op = "Append" /\ call.arg = ""

\* C11: an Append call with a null or an empty text, or an
\* AppendPreparedStatement call with a null statement, ends in the fatal
\* abort state, and no call with such an argument adds an entry.
C11_BadArgumentsAbort ==
    \A t \in Threads :
        /\ BadArgument(lastCall[t]) => aborted
        /\ \A i \in DOMAIN appendLog[t] : ~BadArgument(appendLog[t][i])
        /\ \A i \in DOMAIN m_queries[t] : m_queries[t][i].value \notin {NullPtr, ""}

\* C12: with the clock advancing and every call into the connection
\* returning, a thread that owns the retry lock eventually has returned from
\* Execute without it, whatever codes the connection returns.
C12_RetryLoopEnds ==
    \A t \in Threads :
        (deadlockLock = t) ~> (pc[t] = "done" /\ deadlockLock # t)

\* C12 witness: one call has left the retry loop by the ceiling and
\* returned, another by a re-attempt that succeeded.
C12_Witness ==
    \E t, u \in Threads :
        /\ pc[t] = "done" /\ fatals[t] = 1 /\ result[t] = "false"
        /\ pc[u] = "done" /\ acquisitions[u] = 1 /\ result[u] = "true"
        /\ deadlockLock = Unlocked

\* C13: a thread that has returned from Execute does not own the retry lock,
\* on whichever path it returned, and the lock is free whenever no thread is
\* inside a retry loop.
C13_LockReleasedOnReturn ==
    /\ \A t \in Threads : pc[t] = "done" => deadlockLock # t
    /\ (\A t \in Threads : ~InRetryLoop(t)) => deadlockLock = Unlocked

\* C13 witness: with the lock free, one call has returned after the ceiling
\* ended its loop and another after never entering the loop.
C13_Witness ==
    \E t, u \in Threads :
        /\ pc[t] = "done" /\ fatals[t] = 1
        /\ pc[u] = "done" /\ acquisitions[u] = 0
        /\ deadlockLock = Unlocked

\* The re-attempts of thread t that failed.
FailedReattempts(t) == {i \in DOMAIN codes[t] : i >= 2 /\ codes[t][i] # 0}

\* C14: a re-attempt that returns a code other than 0, ER_LOCK_DEADLOCK or
\* not, logs one warning and goes on to the loop's next test with the lock
\* held and Execute not returned; the warnings logged are as many as the
\* failed re-attempts; and the loop is left behind only with a duration over
\* the ceiling.
C14_FailedReattemptContinues ==
    [][\A t \in Threads :
          /\ (Len(codes[t]) >= 1 /\ Len(codes'[t]) = Len(codes[t]) + 1
                  /\ codes'[t][Len(codes'[t])] # 0) =>
                /\ pc'[t] = "L78inc"
                /\ warnings'[t] = warnings[t] + 1
                /\ deadlockLock' = t
                /\ result'[t] = "none"
          /\ warnings'[t] = Cardinality(FailedReattempts(t)')
          /\ pc'[t] \in {"L86", "L87"} => loopDuration'[t] > DEADLOCK_MAX_RETRY_TIME_MS
      ]_vars

\* C14 witness: a re-attempt failed with a code other than ER_LOCK_DEADLOCK
\* and the thread is back at a loop test that sends it to the next
\* re-attempt.
C14_Witness ==
    \E t \in Threads :
        /\ codes[t] = <<ER_LOCK_DEADLOCK, 1062>>
        /\ warnings[t] = 1
        /\ pc[t] = "L80"

\* C15: startMSTime is read by a thread that owns the lock and has made only
\* its first attempt; the duration the loop tests never exceeds the time
\* since that reading; the test sends the thread to a re-attempt exactly when
\* the duration is at most 60000 ms, and past the loop otherwise.
C15_CeilingFromLoopStart ==
    [][\A t \in Threads :
          /\ (pc[t] = "L78init" /\ pc'[t] # "L78init") =>
                /\ deadlockLock = t
                /\ Len(codes[t]) = 1
                /\ startMSTime'[t] = now
                /\ loopDuration'[t] = 0
          /\ (pc[t] = "L78inc" /\ pc'[t] # "L78inc") =>
                /\ loopDuration'[t] = now - startMSTime[t]
                /\ startMSTime'[t] = startMSTime[t]
          /\ (pc[t] = "L78test" /\ pc'[t] # "L78test") =>
                /\ pc'[t] = "L80" <=> loopDuration[t] <= DEADLOCK_MAX_RETRY_TIME_MS
                /\ pc'[t] = "L86" <=> loopDuration[t] > DEADLOCK_MAX_RETRY_TIME_MS
          /\ pc'[t] = "L80" => loopDuration'[t] <= DEADLOCK_MAX_RETRY_TIME_MS
          /\ pc'[t] \in {"L78test", "L80", "L78inc", "L86", "L87"} =>
                loopDuration'[t] <= now' - startMSTime'[t]
      ]_vars

\* C15 witness: a thread that took the lock after the clock had advanced
\* while it waited has made a re-attempt after a test that read exactly
\* 60000 ms.
C15_Witness ==
    \E t \in Threads :
        /\ pc[t] = "L78inc"
        /\ loopDuration[t] = DEADLOCK_MAX_RETRY_TIME_MS
        /\ startMSTime[t] > 0

\* C16: on ceiling exhaustion the fatal line is logged with the lock held,
\* the lock is released next, the batch is cleaned up after that and false
\* is returned last; a thread never has cleaned its batch up while owning
\* the lock.
C16_ExhaustionOrder ==
    \A t \in Threads :
        /\ pc[t] = "L86" =>
              deadlockLock = t /\ fatals[t] = 0 /\ cleanupCalls[t] = 0
        /\ pc[t] = "L87" =>
              deadlockLock = t /\ fatals[t] = 1 /\ cleanupCalls[t] = 0
        /\ fatals[t] = 1 =>
              /\ pc[t] \in {"L87", "L90", "L92", "done"}
              /\ pc[t] = "L90" =>
                    deadlockLock # t /\ cleanupCalls[t] = 0 /\ result[t] = "none"
              /\ pc[t] = "L92" =>
                    deadlockLock # t /\ cleanupCalls[t] = 1 /\ result[t] = "none"
              /\ pc[t] = "done" =>
                    deadlockLock # t /\ cleanupCalls[t] = 1 /\ result[t] = "false"
        /\ deadlockLock = t => cleanupCalls[t] = 0 /\ ~cleanedUp[t]

\* C16 witness: a thread whose loop the ceiling ended has cleaned its batch
\* up and not yet returned, and another thread already owns the lock it
\* released.
C16_Witness ==
    \E t, u \in Threads :
        /\ pc[t] = "L92" /\ fatals[t] = 1 /\ cleanedUp[t]
        /\ deadlockLock = u /\ u # t

\* C17: every attempt of a call handed the connection the entry sequence
\* the batch held at submission; Cleanup is called at most once per call, and
\* only when the latest attempt has failed and no further one can follow.
C17_BatchUntouchedBetweenAttempts ==
    \A t \in Threads :
        /\ Len(ran[t]) = Len(codes[t])
        /\ \A i \in DOMAIN ran[t] : ran[t][i] = submitted[t]
        /\ (codes[t] # <<>> /\ cleanupCalls[t] = 0) => m_queries[t] = submitted[t]
        /\ cleanupCalls[t] <= 1
        /\ cleanupCalls[t] = 1 =>
              /\ pc[t] \in {"L92", "done"}
              /\ codes[t] # <<>> /\ codes[t][Len(codes[t])] # 0

\* C17 witness: a call whose two attempts were handed the same two entries
\* has cleaned the batch up.
C17_Witness ==
    \E t \in Threads :
        /\ Len(ran[t]) = 2 /\ Len(ran[t][1]) = 2 /\ ran[t][2] = ran[t][1]
        /\ cleanupCalls[t] = 1 /\ m_queries[t] = <<>>

\* C18: a thread is past the retry loop, has logged the fatal line, or has
\* returned false after a first ER_LOCK_DEADLOCK only when a re-attempt was
\* made and every re-attempt failed; the loop's first test sees a duration
\* of 0.
C18_AtLeastOneReattempt ==
    \A t \in Threads :
        /\ (pc[t] = "L78test" /\ Len(codes[t]) = 1) => loopDuration[t] = 0
        /\ (\/ pc[t] \in {"L86", "L87"}
            \/ fatals[t] >= 1
            \/ (codes[t] # <<>> /\ codes[t][1] = ER_LOCK_DEADLOCK
                    /\ (result[t] = "false" \/ pc[t] \in {"L90", "L92"}))) =>
              /\ Len(codes[t]) >= 2
              /\ \A i \in 2..Len(codes[t]) : codes[t][i] # 0

\* C18 witness: a thread that took the lock with the clock already past
\* 60000 ms has still made a re-attempt.
C18_Witness ==
    \E t \in Threads :
        /\ startMSTime[t] > DEADLOCK_MAX_RETRY_TIME_MS
        /\ pc[t] = "L78inc"
        /\ Len(codes[t]) = 2

\* Another thread is inside its retry window: it owns the lock and has not
\* left the for statement of line 78.
OtherInRetryWindow(t) ==
    \E u \in Threads \ {t} : deadlockLock = u /\ InRetryLoop(u)

\* C19: a thread about to make its first attempt does not own the lock and
\* can make the attempt whoever owns it; a call whose first attempt returned
\* 0 or an error other than ER_LOCK_DEADLOCK has never acquired the lock, is
\* never at the lock_guard, and its next step is always possible.
C19_FirstAttemptOutsideLock ==
    \A t \in Threads :
        /\ pc[t] = "L61" =>
              /\ deadlockLock # t /\ acquisitions[t] = 0
              /\ ENABLED FirstAttempt(t)
        /\ (codes[t] # <<>> /\ codes[t][1] # ER_LOCK_DEADLOCK) =>
              /\ acquisitions[t] = 0 /\ deadlockLock # t
              /\ Len(codes[t]) = 1
              /\ pc[t] \in {"L90", "L92", "done"}
              /\ codes[t][1] = 0 <=> result[t] = "true"
              /\ pc[t] = "L90" => ENABLED ExecCleanup(t)
              /\ pc[t] = "L92" => ENABLED ReturnFalse(t)

\* C19 witness: while another thread owns the lock after a failed
\* re-attempt, a thread that has not made its first attempt can make it and
\* return true in the same step.
C19_Witness ==
    \E t \in Threads :
        /\ pc[t] = "L61"
        /\ OtherInRetryWindow(t)
        /\ \E u \in Threads \ {t} : deadlockLock = u /\ Len(codes[u]) = 2
        /\ ENABLED (FirstAttempt(t) /\ pc'[t] = "done" /\ result'[t] = "true"
                        /\ deadlockLock' = deadlockLock)

\* The thread is at the lock_guard of line 76 and the mutex is owned.
Blocked(t) == pc[t] = "L76" /\ ~CanLock(t)

\* C20: a call acquires the lock at most once and only after a first attempt
\* that returned ER_LOCK_DEADLOCK; the owner is never at the lock_guard
\* again, its next step is always possible, and while some call has not
\* returned, some such call is not blocked on the lock.
C20_NoSelfDeadlock ==
    /\ \A t \in Threads :
          /\ acquisitions[t] <= 1
          /\ acquisitions[t] = 1 =>
                /\ codes[t] # <<>> /\ codes[t][1] = ER_LOCK_DEADLOCK
                /\ pc[t] \notin {"L61", "L76"}
          /\ pc[t] = "L76" =>
                /\ acquisitions[t] = 0 /\ deadlockLock # t
                /\ codes[t] = <<ER_LOCK_DEADLOCK>>
          /\ deadlockLock = t =>
                /\ acquisitions[t] = 1 /\ InRetryLoop(t)
                /\ ENABLED ThreadStep(t)
          /\ Blocked(t) =>
                \E u \in Threads \ {t} : deadlockLock = u /\ ~Blocked(u)
    /\ (\E t \in Threads : pc[t] # "done") =>
          \E t \in Threads : pc[t] # "done" /\ ~Blocked(t)

\* C20 witness: the owner's re-attempt returned ER_LOCK_DEADLOCK again; it
\* goes on in the loop with its one acquisition while every other thread
\* waits at the lock_guard.
C20_Witness ==
    \E t \in Threads :
        /\ deadlockLock = t /\ acquisitions[t] = 1
        /\ codes[t] = <<ER_LOCK_DEADLOCK, ER_LOCK_DEADLOCK>>
        /\ pc[t] = "L78inc"
        /\ \A u \in Threads \ {t} : Blocked(u)

=============================================================================
